---- MODULE Spec2Model ----
(***************************************************************************)
(* Model of src/app/app.py: the repository-processing pipeline             *)
(* (process_repository, perform_code_analysis, extract_readme,             *)
(* push_to_gitlab) and the /process handler (process_repo) that drives it. *)
(*                                                                         *)
(* Text is a tuple of one-character strings, so that urlparse, urlunparse, *)
(* quote and str.replace are computed character by character.  External    *)
(* systems (git, the scanner process, the HTTP servers, the filesystem)    *)
(* answer nondeterministically with the outcomes the calls can have; an    *)
(* exception is a record naming its class and the sensitive text that      *)
(* str(e) renders.  All runs use one repository name, hence one            *)
(* working-copy path.  Under Spec runs follow one another; under SpecConc   *)
(* a second request for the same path runs concurrently with the first.    *)
(***************************************************************************)
EXTENDS Integers, Sequences, FiniteSets, TLC

VARIABLES
    pc,               \* the statement the current run is about to execute
    mode,             \* "handler": process_repo; "direct": process_repository called by a driver
    caller,           \* who called perform_code_analysis: "pr" (line 136) or "h" (line 215)
    repo,             \* process_repository's argument: [clone_url, private]
    github_token,     \* process_repository's argument github_token
    auth_clone_url,   \* local of process_repository (lines 123-130)
    fs,               \* the directory at the working-copy path repo_path (NoDir: none)
    pa_ret,           \* how the last call of perform_code_analysis ended
    analysis_result,  \* local of process_repo (line 215)
    readme_content,   \* local of process_repo (line 221)
    gitlab_url,       \* local of process_repo (line 218)
    gitlab_remote_url,\* local of push_to_gitlab (line 184)
    response,         \* what process_repo returned to the HTTP client
    log,              \* the records given to logging in the current run
    calls,            \* the external operations of the current run, in order
    other             \* a concurrent request for the same repo_path: where it stands,
                      \* and how many such requests were started

vars == <<pc, mode, caller, repo, github_token, auth_clone_url, fs, pa_ret,
          analysis_result, readme_content, gitlab_url, gitlab_remote_url,
          response, log, calls, other>>

\* Longest access token the driver passes to process_repository.
MaxTokLen == 2

\* How many concurrent second requests a behaviour of SpecConc starts.
MaxOtherRequests == 1

\* Python's None, where text is expected and where a dictionary is expected.
None == <<"None">>
NoneRec == [none |-> TRUE]

\* No directory at the working-copy path.
NoDir == [gen |-> "absent", readme |-> "", remotes |-> {}]

-----------------------------------------------------------------------------
(* Text helpers.                                                           *)

\* Index of the first element of s that is in cs, Len(s)+1 when there is none.
RECURSIVE IndexOf(_, _, _)
IndexOf(s, cs, i) ==
    IF i > Len(s) THEN Len(s) + 1
    ELSE IF s[i] \in cs THEN i
    ELSE IndexOf(s, cs, i + 1)

Letters == {"a", "b", "e", "g", "h", "i", "l", "o", "p", "q", "r", "s", "t", "u", "w"}
Digits == {"0", "1", "2", "3", "4", "5", "6", "7", "8", "9"}

\* urllib.parse._ALWAYS_SAFE: characters quote() never escapes.
AlwaysSafe == Letters \cup Digits \cup {"A", "B", "C", "D", "E", "F"} \cup {"_", ".", "-", "~"}

\* "%XX" for the characters of the model's alphabet that are not always safe.
PercentCode(c) ==
    CASE c = "/" -> <<"%", "2", "F">>
      [] c = "@" -> <<"%", "4", "0">>
      [] c = ":" -> <<"%", "3", "A">>
      [] c = "?" -> <<"%", "3", "F">>
      [] c = "#" -> <<"%", "2", "3">>
      [] c = "%" -> <<"%", "2", "5">>

\* urllib.parse.quote(string, safe): every character outside _ALWAYS_SAFE and
\* safe becomes %XX.
RECURSIVE quote(_, _)
quote(s, safe) ==
    IF s = <<>> THEN <<>>
    ELSE (IF Head(s) \in AlwaysSafe \cup safe THEN <<Head(s)>> ELSE PercentCode(Head(s)))
         \o quote(Tail(s), safe)

\* The default of quote's parameter safe is '/'.
QuoteDefaultSafe == {"/"}

\* urllib.parse.urlparse for URLs without ';' parameters.
urlparse(u) ==
    LET i         == IndexOf(u, {":"}, 1)
        hasScheme == /\ 1 < i
                     /\ i <= Len(u)
                     /\ \A k \in 1..(i - 1) : u[k] \in Letters
        scheme    == IF hasScheme THEN SubSeq(u, 1, i - 1) ELSE <<>>
        r1        == IF hasScheme THEN SubSeq(u, i + 1, Len(u)) ELSE u
        hasNet    == Len(r1) >= 2 /\ r1[1] = "/" /\ r1[2] = "/"
        r2        == IF hasNet THEN SubSeq(r1, 3, Len(r1)) ELSE r1
        j         == IndexOf(r2, {"/", "?", "#"}, 1)
        netloc    == IF hasNet THEN SubSeq(r2, 1, j - 1) ELSE <<>>
        r3        == IF hasNet THEN SubSeq(r2, j, Len(r2)) ELSE r2
        f         == IndexOf(r3, {"#"}, 1)
        r4        == SubSeq(r3, 1, f - 1)
        q         == IndexOf(r4, {"?"}, 1)
    IN  [scheme   |-> scheme,
         netloc   |-> netloc,
         path     |-> SubSeq(r4, 1, q - 1),
         query    |-> SubSeq(r4, q + 1, Len(r4)),
         fragment |-> SubSeq(r3, f + 1, Len(r3))]

\* urllib.parse.urlunparse (every scheme of the model is in uses_netloc).
urlunparse(p) ==
    LET rooted == IF p.path # <<>> /\ Head(p.path) # "/" THEN <<"/">> \o p.path ELSE p.path
        u1     == IF p.netloc # <<>> \/ (p.scheme # <<>> /\ SubSeq(p.path, 1, 2) # <<"/", "/">>)
                  THEN <<"/", "/">> \o p.netloc \o rooted
                  ELSE p.path
        u2     == IF p.scheme # <<>> THEN p.scheme \o <<":">> \o u1 ELSE u1
        u3     == IF p.query # <<>> THEN u2 \o <<"?">> \o p.query ELSE u2
    IN  IF p.fragment # <<>> THEN u3 \o <<"#">> \o p.fragment ELSE u3

\* str.replace(old, new): every occurrence, left to right.
RECURSIVE replace(_, _, _)
replace(s, old, new) ==
    IF Len(s) < Len(old) THEN s
    ELSE IF SubSeq(s, 1, Len(old)) = old
         THEN new \o replace(SubSeq(s, Len(old) + 1, Len(s)), old, new)
         ELSE <<Head(s)>> \o replace(Tail(s), old, new)

-----------------------------------------------------------------------------
(* Configuration and inputs.                                               *)

https == <<"h", "t", "t", "p", "s", ":", "/", "/">>

\* Module-level configuration read from the environment at import.
GITHUB_TOKEN == <<"g", "h">>
SONAR_TOKEN == <<"s", "q">>
GITLAB_TOKEN == <<"g", "l">>

\* Clone URLs a request or a driver supplies: https://h/o/r and https://h/o/r?q
CloneUrls == {https \o <<"h", "/", "o", "/", "r">>,
              https \o <<"h", "/", "o", "/", "r", "?", "q">>}

\* Access tokens a driver passes: text over an alphabet with an unreserved
\* character and two reserved ones, or None (the variable is not set).
TokenChars == {"a", "/", "@"}
Tokens == UNION {[1..n -> TokenChars] : n \in 1..MaxTokLen}

\* The summary document of the upstream repository: missing (""), or its text.
Readmes == {"", "readme text"}

\* Issue lists the issue-search endpoint answers with.
IssueLists == {<<>>, <<"S1234">>}

\* The JSON object the project-creation endpoint answers with.
GitlabRepoInfo ==
    [http_url_to_repo |-> https \o <<"g", "l", "/", "o", "/", "r">>,
     web_url          |-> https \o <<"g", "l", "/", "w", "e", "b">>]

\* An exception: its class and the sensitive text str(e) renders.
Exc(type, embeds) == [type |-> type, embeds |-> embeds]

\* Text handed on: a literal, or str(e).
Lit(s) == [text |-> s, embeds |-> {}]
Str(e) == [text |-> e.type, embeds |-> e.embeds]

\* Exception classes deriving from git.GitError.
GitErrors == {"GitCommandError", "NoSuchPathError", "InvalidGitRepositoryError"}

\* One record handed to logging: the line of the logging call and the
\* sensitive text its rendered message contains.
LogRec(line, embeds) == [line |-> line, embeds |-> embeds]

\* One external operation: what was done, how it ended, and what it was given
\* (clone: the URL; scanner, readme: the generation of the directory it saw).
Call(op, res, arg) == [op |-> op, res |-> res, arg |-> arg]

\* What a stage sees at the working-copy path.
Seen(d) == <<d.gen>>

-----------------------------------------------------------------------------
(* Pure functions of the program.                                          *)

\* extract_readme: the content of README.md, or the sentinel.
README_NOT_FOUND == "README.md not found."
\* An extractor that tests the directory instead of the file in it.
extract_readme_DirOnly(d) ==
    IF d.gen # "absent" THEN d.readme ELSE README_NOT_FOUND
extract_readme(d) ==
    IF d.gen # "absent" /\ d.readme # "" THEN d.readme ELSE README_NOT_FOUND

\* process_repository, lines 123-130: the URL handed to Repo.clone_from.
AuthCloneUrl(clone_url, token, is_private) ==
    IF is_private
    THEN LET parsed_url == urlparse(clone_url)
         IN  urlunparse([parsed_url EXCEPT
                 !.netloc = quote(token, QuoteDefaultSafe) \o <<"@">> \o parsed_url.netloc])
    ELSE clone_url

\* push_to_gitlab, line 184: the remote URL carrying the destination token.
GitlabRemoteUrl(info) ==
    replace(info.http_url_to_repo, https,
            https \o <<"o", "a", "u", "t", "h", "2", ":">> \o GITLAB_TOKEN \o <<"@">>)

\* The outcome dictionaries perform_code_analysis returns.
STATUS_COMPLETED == "Code analysis completed successfully."
STATUS_FAILED == "Code analysis failed."
STATUS_FETCH_FAILED == "Failed to fetch analysis results."

Completed(issues) == [status |-> STATUS_COMPLETED, issues |-> issues]
\* A failed probe reported as a completed analysis without findings.
ProbeFailed_AsCompleted(text) == [status |-> STATUS_COMPLETED, issues |-> <<>>]
ProbeFailed(text) == [status |-> STATUS_FAILED, error |-> Lit(text)]
ScannerFailed(e) == [status |-> STATUS_FAILED, error |-> Str(e)]
\* A fetch failure that still carries an (empty) issue list.
FetchFailed_KeepsIssues(e) ==
    [status |-> STATUS_FETCH_FAILED, error |-> Str(e), issues |-> <<>>]
FetchFailed(e) == [status |-> STATUS_FETCH_FAILED, error |-> Str(e)]

\* Sensitive text in the rendering of an outcome dictionary.
DictEmbeds(d) == IF "error" \in DOMAIN d THEN d.error.embeds ELSE {}

-----------------------------------------------------------------------------
(* Initial state: the service is up, no request yet, scratch directory     *)
(* empty.                                                                  *)

Init ==
    /\ pc = "idle"
    /\ mode = "none"
    /\ caller = "none"
    /\ repo = NoneRec
    /\ github_token = None
    /\ auth_clone_url = None
    /\ fs = NoDir
    /\ pa_ret = NoneRec
    /\ analysis_result = NoneRec
    /\ readme_content = ""
    /\ gitlab_url = None
    /\ gitlab_remote_url = None
    /\ response = NoneRec
    /\ log = <<>>
    /\ calls = <<>>
    /\ other = [at |-> "idle", started |-> 0]

\* A new run finds whatever the previous run left at the working-copy path.
LeftBehind(d) == IF d.gen = "absent" THEN d ELSE [d EXCEPT !.gen = "stale"]

StartRun(m, r, tok) ==
    /\ pc = "idle"
    /\ pc' = "pr_rmtree"
    /\ mode' = m
    /\ repo' = r
    /\ github_token' = tok
    /\ fs' = LeftBehind(fs)
    /\ caller' = "none"
    /\ auth_clone_url' = None
    /\ pa_ret' = NoneRec
    /\ analysis_result' = NoneRec
    /\ readme_content' = ""
    /\ gitlab_url' = None
    /\ gitlab_remote_url' = None
    /\ response' = NoneRec
    /\ log' = <<>>
    /\ calls' = <<>>
    /\ UNCHANGED other

\* process_repo, lines 201-212: a POST /process with a repo_url.
ProcessRepoStart ==
    \E url \in CloneUrls :
        StartRun("handler", [clone_url |-> url, private |-> FALSE], GITHUB_TOKEN)

\* What the web framework answers when the view function raises: the status
\* of an HTTP exception (request.json on a body that is not JSON), or its
\* 500 error page for any other exception.  Never the handler's JSON object.
FrameworkResponse(e) ==
    [status |-> IF e.type = "BadRequest" THEN 400 ELSE 500,
     body   |-> [html |-> e.type]]

\* process_repo, lines 201-208, before the try block: request.json raises on
\* a body that is not JSON, ['repo_url'] raises KeyError when the key is
\* missing, os.makedirs may fail.  The exception leaves the view function.
ProcessRepoRejected ==
    /\ pc = "idle"
    /\ \E type \in {"BadRequest", "KeyError", "OSError"} :
          response' = FrameworkResponse(Exc(type, {}))
    /\ mode' = "handler"
    /\ repo' = NoneRec
    /\ github_token' = None
    /\ fs' = LeftBehind(fs)
    /\ caller' = "none"
    /\ auth_clone_url' = None
    /\ pa_ret' = NoneRec
    /\ analysis_result' = NoneRec
    /\ readme_content' = ""
    /\ gitlab_url' = None
    /\ gitlab_remote_url' = None
    /\ log' = <<>>
    /\ calls' = <<>>
    /\ UNCHANGED other
    /\ UNCHANGED pc

\* A driver calls process_repository directly with a descriptor and a token.
DirectStart ==
    \E url \in CloneUrls, priv \in BOOLEAN, tok \in Tokens \cup {None} :
        StartRun("direct", [clone_url |-> url, private |-> priv], tok)

-----------------------------------------------------------------------------
(* process_repository (lines 110-151).                                     *)

\* The variables process_repository and perform_code_analysis never assign.
handlerLocals == <<readme_content, gitlab_url, gitlab_remote_url>>
arguments == <<mode, repo, github_token>>

\* Lines 145-151: the except clauses of process_repository and what they log.
\* Except clauses that swallow the exception without a log record.
PrExceptLog_Silent(e) == <<>>
PrExceptLog(e) ==
    IF e.type \in GitErrors
    THEN <<LogRec(146, e.embeds)>>
    ELSE IF e.type \in {"CalledProcessError", "RequestException"}
         THEN <<LogRec(148, e.embeds)>>
         ELSE <<LogRec(150, e.embeds), LogRec(151, e.embeds)>>

\* process_repository returns (None, on every path): process_repo goes on to
\* line 215, a driver is done with this repository.
\* A handler that goes from process_repository straight to the mirror.
PrReturn_SkipsAnalysis ==
    IF mode = "handler"
    THEN pc' = "pg_create" /\ caller' = "h"
    ELSE pc' = "idle" /\ caller' = "none"
PrReturn ==
    IF mode = "handler"
    THEN pc' = "pa_probe_scanner" /\ caller' = "h"
    ELSE pc' = "idle" /\ caller' = "none"

\* Lines 116-120: a directory found at repo_path is removed; rmtree may fail.
PrRmtree ==
    /\ pc = "pr_rmtree"
    /\ \/ /\ fs.gen = "absent"
          /\ log' = Append(log, LogRec(116, {}))
          /\ pc' = "pr_url"
          /\ UNCHANGED <<fs, calls, caller>>
       \/ /\ fs.gen # "absent"
          /\ fs' = NoDir
          /\ calls' = Append(calls, Call("rmtree", "ok", Seen(fs)))
          /\ log' = Append(log, LogRec(116, {}))
          /\ pc' = "pr_url"
          /\ UNCHANGED caller
       \/ /\ fs.gen # "absent"
          /\ calls' = Append(calls, Call("rmtree", "error", Seen(fs)))
          /\ log' = Append(log, LogRec(116, {})) \o PrExceptLog(Exc("OSError", {}))
          /\ PrReturn
          /\ UNCHANGED fs
    /\ UNCHANGED <<other, arguments, auth_clone_url, pa_ret, analysis_result, handlerLocals, response>>

\* Lines 122-130: quote(None) raises TypeError.
PrBuildUrl ==
    /\ pc = "pr_url"
    /\ IF repo.private /\ github_token = None
       THEN /\ log' = log \o PrExceptLog(Exc("TypeError", {}))
            /\ PrReturn
            /\ UNCHANGED auth_clone_url
       ELSE /\ auth_clone_url' = AuthCloneUrl(repo.clone_url, github_token, repo.private)
            /\ pc' = "pr_clone"
            /\ UNCHANGED <<log, caller>>
    /\ UNCHANGED <<other, arguments, fs, calls, pa_ret, analysis_result, handlerLocals, response>>

\* Lines 132-134, 145-146: Repo.clone_from; the text of a GitError may or may
\* not show the URL the command was given.
PrClone ==
    /\ pc = "pr_clone"
    /\ \/ \E r \in Readmes :
            /\ fs.gen = "absent"
            /\ fs' = [gen |-> "fresh", readme |-> r, remotes |-> {"origin"}]
            /\ calls' = Append(calls, Call("clone", "ok", auth_clone_url))
            /\ log' = Append(log, LogRec(134, {}))
            /\ pc' = "pa_probe_scanner"
            /\ caller' = "pr"
       \/ \E shown \in SUBSET {auth_clone_url} :
            /\ calls' = Append(calls, Call("clone", "error", auth_clone_url))
            /\ log' = log \o PrExceptLog(Exc("GitCommandError", shown))
            /\ PrReturn
            /\ UNCHANGED fs
    /\ UNCHANGED <<other, arguments, auth_clone_url, pa_ret, analysis_result, handlerLocals, response>>

\* A process_repository with line 143 uncommented.
AfterProcessing_Deletes(d) == NoDir
\* Lines 142-143: the delete after processing is commented out, the working
\* copy stays as it is.
AfterProcessing(d) == d

\* Lines 137-140, then the return: the document is read, both results logged.
PrReadme ==
    /\ pc = "pr_readme"
    /\ calls' = Append(calls, Call("readme", extract_readme(fs), Seen(fs)))
    /\ log' = log \o <<LogRec(139, DictEmbeds(pa_ret.value)), LogRec(140, {})>>
    /\ fs' = AfterProcessing(fs)
    /\ PrReturn
    /\ UNCHANGED <<other, arguments, auth_clone_url, pa_ret, analysis_result, handlerLocals, response>>

-----------------------------------------------------------------------------
(* perform_code_analysis (lines 43-91) and the two probes (lines 27-41).   *)

\* check_sonarscanner_availability on the outcome of `sonar-scanner -v`:
\* only CalledProcessError and FileNotFoundError are caught.
check_sonarscanner_availability(out) ==
    CASE out = "ok" -> "True"
      [] out \in {"nonzero", "missing"} -> "False"
      [] OTHER -> "raise"

\* The status code of the answer not looked at: any answer counts as available.
check_sonarqube_availability_AnyAnswer(out) == out # "error"

\* check_sonarqube_availability on the outcome of the status request.
check_sonarqube_availability(out) == out = "200"

Returned(v) == [kind |-> "returned", value |-> v]
Raised(e) == [kind |-> "raised", exc |-> e]

\* process_repo, lines 231-232: the HTTP 500 answer.
ErrorResponse(e) == [status |-> 500, body |-> [error |-> Str(e)]]

\* perform_code_analysis ends: a returned dictionary goes to the caller's
\* local; an exception goes to the caller's except clause.
PaFinish(outcome, lg) ==
    /\ pa_ret' = outcome
    /\ IF outcome.kind = "returned"
       THEN IF caller = "pr"
            THEN /\ pc' = "pr_readme"
                 /\ log' = lg
                 /\ UNCHANGED <<caller, analysis_result, response>>
            ELSE /\ pc' = "pg_create"
                 /\ analysis_result' = outcome.value
                 /\ log' = lg
                 /\ UNCHANGED <<caller, response>>
       ELSE IF caller = "pr"
            THEN /\ log' = lg \o PrExceptLog(outcome.exc)
                 /\ PrReturn
                 /\ UNCHANGED <<analysis_result, response>>
            ELSE /\ response' = ErrorResponse(outcome.exc)
                 /\ pc' = "idle"
                 /\ log' = lg
                 /\ UNCHANGED <<caller, analysis_result>>

\* Lines 55-59: the command-line probe.
PaProbeScanner ==
    /\ pc = "pa_probe_scanner"
    /\ \E out \in {"ok", "nonzero", "missing", "oserror"} :
         /\ calls' = Append(calls, Call("probe_scanner", out, None))
         /\ LET lg == Append(log, LogRec(55, {}))
                ok == check_sonarscanner_availability(out)
            IN  CASE ok = "True" ->
                       /\ pc' = "pa_probe_server"
                       /\ log' = lg
                       /\ UNCHANGED <<pa_ret, caller, analysis_result, response>>
                  [] ok = "False" ->
                       PaFinish(Returned(ProbeFailed("sonar-scanner not available")),
                                Append(lg, LogRec(58, {})))
                  [] ok = "raise" ->
                       PaFinish(Raised(Exc("PermissionError", {})), lg)
    /\ UNCHANGED <<other, arguments, auth_clone_url, fs, handlerLocals>>

\* Lines 61-63: the server probe.
PaProbeServer ==
    /\ pc = "pa_probe_server"
    /\ \E out \in {"200", "503", "error"} :
         /\ calls' = Append(calls, Call("probe_server", out, None))
         /\ IF check_sonarqube_availability(out)
            THEN /\ pc' = "pa_scanner"
                 /\ UNCHANGED <<log, pa_ret, caller, analysis_result, response>>
            ELSE PaFinish(Returned(ProbeFailed("SonarQube server not accessible")),
                          Append(log, LogRec(62, {})))
    /\ UNCHANGED <<other, arguments, auth_clone_url, fs, handlerLocals>>

\* check=True left out: the exit status of the scanner is ignored.
SubprocessRunCheck_Unchecked(out) == out \in {"ok", "nonzero"}

\* subprocess.run(..., check=True), line 77: a process that ran and exited
\* non-zero raises CalledProcessError.
SubprocessRunCheck(out) == out = "ok"

\* Lines 65-77, 86-88: the scanner process.  str(CalledProcessError) renders
\* the command, whose last argument is -Dsonar.login=SONAR_TOKEN; an OSError
\* (binary gone, not executable) is caught by neither except clause.
PaScanner ==
    /\ pc = "pa_scanner"
    /\ \E out \in {"ok", "nonzero", "oserror"} :
         /\ calls' = Append(calls, Call("scanner", out, Seen(fs)))
         /\ CASE out = "oserror" ->
                   PaFinish(Raised(Exc("PermissionError", {})), log)
              [] out # "oserror" /\ SubprocessRunCheck(out) ->
                   /\ pc' = "pa_query"
                   /\ UNCHANGED <<log, pa_ret, caller, analysis_result, response>>
              [] OTHER ->
                   LET e == Exc("CalledProcessError", {SONAR_TOKEN})
                   IN  PaFinish(Returned(ScannerFailed(e)), Append(log, LogRec(87, e.embeds)))
    /\ UNCHANGED <<other, arguments, auth_clone_url, fs, handlerLocals>>

\* Lines 79-85, 89-91: the issue-search request.  A JSON body that is not an
\* object has no .get: AttributeError, caught by neither except clause.
PaQuery ==
    /\ pc = "pa_query"
    /\ \/ \E issues \in IssueLists :
            /\ calls' = Append(calls, Call("query", "ok", None))
            /\ PaFinish(Returned(Completed(issues)), log)
       \/ /\ calls' = Append(calls, Call("query", "http_error", None))
          /\ LET e == Exc("RequestException", {})
             IN  PaFinish(Returned(FetchFailed(e)), Append(log, LogRec(90, e.embeds)))
       \/ /\ calls' = Append(calls, Call("query", "not_an_object", None))
          /\ PaFinish(Raised(Exc("AttributeError", {})), log)
    /\ UNCHANGED <<other, arguments, auth_clone_url, fs, handlerLocals>>

-----------------------------------------------------------------------------
(* push_to_gitlab (lines 153-193), called at line 218.                     *)

\* The exception not caught in push_to_gitlab: it reaches process_repo's
\* except clause and the request ends with HTTP 500.
PgFail_Propagates(e) ==
    /\ response' = ErrorResponse(e)
    /\ pc' = "idle"
    /\ UNCHANGED <<log, gitlab_url>>

\* Lines 191-193: every exception is logged and None returned.
PgFail(e) ==
    /\ log' = Append(log, LogRec(192, e.embeds))
    /\ gitlab_url' = None
    /\ pc' = "h_readme"
    /\ UNCHANGED response

\* Lines 165-180: the project-creation request.
PgCreate ==
    /\ pc = "pg_create"
    /\ \/ /\ calls' = Append(calls, Call("create_project", "ok", None))
          /\ pc' = "pg_remote"
          /\ UNCHANGED <<log, gitlab_url, response>>
       \/ /\ calls' = Append(calls, Call("create_project", "error", None))
          /\ PgFail(Exc("RequestException", {}))
    /\ UNCHANGED <<other, arguments, caller, auth_clone_url, fs, pa_ret, analysis_result,
                   readme_content, gitlab_remote_url>>

\* Lines 182-185: Repo(repo_path) needs the directory; create_remote fails when
\* the remote exists, and the text of its error may show the URL it was given.
PgRemote ==
    /\ pc = "pg_remote"
    /\ IF fs.gen = "absent"
       THEN /\ PgFail(Exc("NoSuchPathError", {}))
            /\ UNCHANGED <<fs, calls, gitlab_remote_url>>
       ELSE /\ gitlab_remote_url' = GitlabRemoteUrl(GitlabRepoInfo)
            /\ IF "gitlab" \in fs.remotes
               THEN /\ calls' = Append(calls, Call("create_remote", "error", gitlab_remote_url'))
                    /\ \E shown \in SUBSET {gitlab_remote_url'} :
                           PgFail(Exc("GitCommandError", shown))
                    /\ UNCHANGED fs
               ELSE /\ calls' = Append(calls, Call("create_remote", "ok", gitlab_remote_url'))
                    /\ fs' = [fs EXCEPT !.remotes = @ \cup {"gitlab"}]
                    /\ pc' = "pg_push"
                    /\ UNCHANGED <<log, gitlab_url, response>>
    /\ UNCHANGED <<other, arguments, caller, auth_clone_url, pa_ret, analysis_result,
                   readme_content>>

\* Lines 187-193: origin.push('master').  Remote.push raises only when the
\* command fails without reporting any ref; a rejected ref comes back as a
\* PushInfo with the ERROR flag set, which the code does not inspect.
PgPush ==
    /\ pc = "pg_push"
    /\ \/ \E out \in {"ok", "rejected"} :
            /\ calls' = Append(calls, Call("push", out, Seen(fs)))
            /\ gitlab_url' = GitlabRepoInfo.web_url
            /\ pc' = "h_readme"
            /\ UNCHANGED <<log, response>>
       \/ \E shown \in SUBSET {gitlab_remote_url} :
            /\ calls' = Append(calls, Call("push", "error", Seen(fs)))
            /\ PgFail(Exc("GitCommandError", shown))
    /\ UNCHANGED <<other, arguments, caller, auth_clone_url, fs, pa_ret, analysis_result,
                   readme_content, gitlab_remote_url>>

-----------------------------------------------------------------------------
(* process_repo (lines 199-232), after process_repository has returned.    *)

\* Line 221.
HReadme ==
    /\ pc = "h_readme"
    /\ readme_content' = extract_readme(fs)
    /\ calls' = Append(calls, Call("readme", extract_readme(fs), Seen(fs)))
    /\ pc' = "h_cleanup"
    /\ UNCHANGED <<other, arguments, caller, auth_clone_url, fs, pa_ret, analysis_result,
                   gitlab_url, gitlab_remote_url, response, log>>

\* Lines 226-230: the success JSON.
SuccessResponse ==
    [status |-> 200,
     body   |-> [analysis_result |-> analysis_result,
                 readme_content  |-> readme_content,
                 gitlab_url      |-> gitlab_url]]

\* Lines 223-232: rmtree raises when the directory is not there, and may fail
\* on one that is; otherwise the success JSON is returned.
HCleanup ==
    /\ pc = "h_cleanup"
    /\ \/ /\ fs.gen = "absent"
          /\ calls' = Append(calls, Call("cleanup", "error", Seen(fs)))
          /\ response' = ErrorResponse(Exc("FileNotFoundError", {}))
          /\ UNCHANGED fs
       \/ /\ fs.gen # "absent"
          /\ calls' = Append(calls, Call("cleanup", "error", Seen(fs)))
          /\ response' = ErrorResponse(Exc("OSError", {}))
          /\ UNCHANGED fs
       \/ /\ fs.gen # "absent"
          /\ calls' = Append(calls, Call("cleanup", "ok", Seen(fs)))
          /\ fs' = NoDir
          /\ response' = SuccessResponse
    /\ pc' = "idle"
    /\ UNCHANGED <<other, arguments, caller, auth_clone_url, pa_ret, analysis_result,
                   handlerLocals, log>>

-----------------------------------------------------------------------------

Next ==
    \/ ProcessRepoStart
    \/ ProcessRepoRejected
    \/ DirectStart
    \/ PrRmtree
    \/ PrBuildUrl
    \/ PrClone
    \/ PrReadme
    \/ PaProbeScanner
    \/ PaProbeServer
    \/ PaScanner
    \/ PaQuery
    \/ PgCreate
    \/ PgRemote
    \/ PgPush
    \/ HReadme
    \/ HCleanup

Spec == Init /\ [][Next]_vars

-----------------------------------------------------------------------------
(* A second request to /process for a repository of the same name, served  *)
(* by another thread of the server: the steps of its run that touch the    *)
(* shared repo_path.  Nothing in the program orders them against the first *)
(* request's steps.                                                        *)

runOne == <<pc, mode, caller, repo, github_token, auth_clone_url, pa_ret,
            analysis_result, readme_content, gitlab_url, gitlab_remote_url,
            response, log, calls>>

\* process_repo is entered for the second request.
OtherStart ==
    /\ other.at = "idle"
    /\ other.started < MaxOtherRequests
    /\ other' = [at |-> "o_rmtree", started |-> other.started + 1]
    /\ UNCHANGED <<runOne, fs>>

\* A second request that waits until no other run is in progress.
OtherRmtree_Serialized ==
    /\ other.at = "o_rmtree"
    /\ pc = "idle"
    /\ fs' = NoDir
    /\ other' = [other EXCEPT !.at = "o_clone"]
    /\ UNCHANGED runOne
\* Lines 119-120 in the second request: whatever is at repo_path is removed.
OtherRmtree ==
    /\ other.at = "o_rmtree"
    /\ fs' = NoDir
    /\ other' = [other EXCEPT !.at = "o_clone"]
    /\ UNCHANGED runOne

\* Line 133 in the second request: the path is created again when it is
\* free; clone_from fails on a directory that is already there.
OtherClone ==
    /\ other.at = "o_clone"
    /\ \/ \E r \in Readmes :
            /\ fs.gen = "absent"
            /\ fs' = [gen |-> "other", readme |-> r, remotes |-> {"origin"}]
       \/ UNCHANGED fs
    /\ other' = [other EXCEPT !.at = "o_cleanup"]
    /\ UNCHANGED runOne

\* Line 224 in the second request: the final cleanup (it raises when the
\* path is gone, and the request ends either way).
OtherCleanup ==
    /\ other.at = "o_cleanup"
    /\ fs' = NoDir
    /\ other' = [other EXCEPT !.at = "idle"]
    /\ UNCHANGED runOne

NextConc ==
    \/ ProcessRepoStart
    \/ PrRmtree
    \/ PrBuildUrl
    \/ PrClone
    \/ PrReadme
    \/ PaProbeScanner
    \/ PaProbeServer
    \/ PaScanner
    \/ PaQuery
    \/ PgCreate
    \/ PgRemote
    \/ PgPush
    \/ HReadme
    \/ HCleanup
    \/ OtherStart
    \/ OtherRmtree
    \/ OtherClone
    \/ OtherCleanup

SpecConc == Init /\ [][NextConc]_vars

-----------------------------------------------------------------------------
(* Properties.                                                             *)

LastCall == calls[Len(calls)]

IsCall(i, op, res) == calls[i].op = op /\ calls[i].res = res

\* Index of the last op before position i of calls, 0 when there is none.
RECURSIVE LastBefore(_, _)
LastBefore(i, op) ==
    IF i <= 1 THEN 0
    ELSE IF calls[i - 1].op = op THEN i - 1
    ELSE LastBefore(i - 1, op)

PaReturned == pa_ret # NoneRec /\ pa_ret.kind = "returned"

\* perform_code_analysis has just returned because a probe failed.
ProbeFailureReturned ==
    /\ Len(calls) > 0
    /\ \/ LastCall.op = "probe_scanner" /\ LastCall.res \in {"nonzero", "missing"}
       \/ LastCall.op = "probe_server" /\ LastCall.res \in {"503", "error"}

\* perform_code_analysis has just returned because the scanner exited non-zero.
ScannerFailureReturned ==
    Len(calls) > 0 /\ LastCall.op = "scanner" /\ LastCall.res = "nonzero"

\* C1: a clone failure is a hard failure: every scanner invocation, issue
\* query, project-creation call and push of a run comes after a successful
\* clone of the same run.
C1_CloneFailureIsHard ==
    \A i \in 1..Len(calls) :
        calls[i].op \in {"scanner", "query", "create_project", "push"} =>
            \E j \in 1..(i - 1) : IsCall(j, "clone", "ok")

\* C2: in perform_code_analysis the scanner and the issue query run only after
\* both probes of the same call have passed; a failed probe ends the call
\* with neither.
C2_ProbesGateTheScanner ==
    /\ \A i \in 1..Len(calls) :
           calls[i].op \in {"scanner", "query"} =>
               LET ps == LastBefore(i, "probe_scanner")
                   pv == LastBefore(i, "probe_server")
               IN  /\ ps > 0
                   /\ calls[ps].res = "ok"
                   /\ pv > ps
                   /\ calls[pv].res = "200"
    /\ ProbeFailureReturned => PaReturned /\ pc \notin {"pa_scanner", "pa_query"}

\* C2 witness: a call that returned after the server probe answered 503.
C2_Witness ==
    /\ Len(calls) > 0
    /\ IsCall(Len(calls), "probe_server", "503")
    /\ PaReturned
    /\ pc = "pr_readme"

ProbeErrorTexts == {"sonar-scanner not available", "SonarQube server not accessible"}

C4_QueryOnlyAfterScannerSuccess ==
    /\ \A i \in 1..Len(calls) :
           calls[i].op = "query" => i > 1 /\ IsCall(i - 1, "scanner", "ok")
    /\ ScannerFailureReturned =>
           /\ PaReturned
           /\ pa_ret.value = [status |-> STATUS_FAILED,
                              error  |-> Str(Exc("CalledProcessError", {SONAR_TOKEN}))]
           /\ pc # "pa_query"

\* C4 witness: the scanner exited non-zero and the call returned its failure.
C4_Witness ==
    /\ ScannerFailureReturned
    /\ PaReturned
    /\ pa_ret.value.status = STATUS_FAILED
    /\ pc = "pg_create"

\* C5: perform_code_analysis never raises: every call ends by returning an
\* outcome dictionary.
C5_AnalysisNeverRaises ==
    pa_ret # NoneRec => pa_ret.kind = "returned"

CreateFailed ==
    \E i \in 1..Len(calls) : IsCall(i, "create_project", "error")

C7_UrlIffAllThreeSucceeded ==
    /\ pc = "h_readme" =>
           ((gitlab_url # None) <=>
               \E i, j, k \in 1..Len(calls) :
                   /\ i < j
                   /\ j < k
                   /\ IsCall(i, "create_project", "ok")
                   /\ IsCall(j, "create_remote", "ok")
                   /\ IsCall(k, "push", "ok"))
    /\ \A i \in 1..Len(calls) :
           /\ calls[i].op = "create_remote" =>
                  \E j \in 1..(i - 1) : IsCall(j, "create_project", "ok")
           /\ calls[i].op = "push" =>
                  \E j \in 1..(i - 1) : IsCall(j, "create_remote", "ok")

\* C8: every run starts from a clean working copy: the clone finds no
\* directory at the path, and neither the scanner nor the document extraction
\* of a run sees a directory that was there before the run.
C8_CleanWorkingCopy ==
    /\ pc = "pr_clone" => fs.gen = "absent"
    /\ \A i \in 1..Len(calls) :
           calls[i].op \in {"scanner", "readme"} => calls[i].arg # <<"stale">>

\* Every character outside the unreserved set percent-escaped.
EscapeAllReserved(tok) == quote(tok, {})

\* C9: for a private descriptor the URL handed to the clone is the original
\* URL with only its authority changed to '<token, every reserved character
\* escaped>@<original authority>'; for a non-private one it is the original.
C9_CloneUrlRewrite ==
    \A i \in 1..Len(calls) :
        calls[i].op = "clone" =>
            IF repo.private
            THEN LET orig   == urlparse(repo.clone_url)
                     handed == urlparse(calls[i].arg)
                 IN  handed = [orig EXCEPT
                         !.netloc = EscapeAllReserved(github_token) \o <<"@">> \o orig.netloc]
            ELSE calls[i].arg = repo.clone_url

\* URLs of the current run that carry a token.
TokenUrls ==
    (IF repo # NoneRec /\ repo.private /\ auth_clone_url # None
     THEN {auth_clone_url} ELSE {})
    \cup (IF gitlab_remote_url # None THEN {gitlab_remote_url} ELSE {})

\* Sensitive text in what process_repo answered.
ResponseEmbeds ==
    IF response = NoneRec THEN {}
    ELSE IF "error" \in DOMAIN response.body THEN response.body.error.embeds
    ELSE IF "html" \in DOMAIN response.body THEN {}
    ELSE DictEmbeds(response.body.analysis_result) \cup {response.body.gitlab_url}

\* C10: no log record and no response contains a URL with an embedded token.
C10_NoTokenUrlExposed ==
    /\ \A i \in 1..Len(log) : log[i].embeds \cap TokenUrls = {}
    /\ ResponseEmbeds \cap TokenUrls = {}

\* The credentials the service holds.
Credentials == {SONAR_TOKEN, GITHUB_TOKEN, GITLAB_TOKEN}

\* C11: the answer of /process never carries a credential, neither in
\* analysis_result.error nor in the error string of an HTTP 500 answer.
C11_NoCredentialInResponse ==
    ResponseEmbeds \cap Credentials = {}

HasCall(op) == \E i \in 1..Len(calls) : calls[i].op = op

CloneSucceeded == \E i \in 1..Len(calls) : IsCall(i, "clone", "ok")

\* C12: a /process run whose clone succeeded has extracted the document and
\* attempted the mirror publish by the time it answers, whatever the analysis
\* did (completed, failed in the scanner or the query, skipped by a probe).
C12_AnalysisNeverBlocksLaterStages ==
    (mode = "handler" /\ pc = "idle" /\ CloneSucceeded) =>
        HasCall("readme") /\ HasCall("create_project")

\* No README.md at the root of the working copy, or no working copy at all.
DocumentAbsent == fs.gen = "absent" \/ fs.readme = ""

\* C13: when the summary document is absent (the directory itself may be
\* missing), extract_readme returns the sentinel, does not raise (the caller
\* goes on to its next line) and leaves the working copy, the analysis
\* outcome, the mirror URL and the answer as they were.
C13_AbsentDocumentGivesSentinel ==
    [][(pc \in {"pr_readme", "h_readme"} /\ DocumentAbsent) =>
          /\ calls' = Append(calls, Call("readme", README_NOT_FOUND, Seen(fs)))
          /\ pc = "h_readme" => pc' = "h_cleanup" /\ readme_content' = README_NOT_FOUND
          /\ pc = "pr_readme" => log' = log \o <<LogRec(139, DictEmbeds(pa_ret.value)), LogRec(140, {})>>
          /\ UNCHANGED <<fs, pa_ret, analysis_result, gitlab_url, gitlab_remote_url,
                         auth_clone_url, response>>]_vars

C13_Witness ==
    /\ pc = "h_cleanup"
    /\ fs.gen = "absent"
    /\ LastCall = Call("readme", README_NOT_FOUND, Seen(fs))
    /\ readme_content = README_NOT_FOUND

\* C19: an outcome returned by perform_code_analysis has an issue list exactly
\* when its status is the completed one, and an error detail exactly when it
\* is not; none has both or neither.
C19_OutcomeNeverPartial ==
    PaReturned =>
        /\ "issues" \in DOMAIN pa_ret.value <=> pa_ret.value.status = STATUS_COMPLETED
        /\ "error" \in DOMAIN pa_ret.value <=> pa_ret.value.status # STATUS_COMPLETED

C19_Witness ==
    /\ PaReturned
    /\ LastCall.op = "query"
    /\ pa_ret.value.status = STATUS_FETCH_FAILED
    /\ DOMAIN pa_ret.value = {"status", "error"}

\* How many times an external operation was invoked in the current run.
Count(op) == Cardinality({i \in 1..Len(calls) : calls[i].op = op})

\* C20: in one call of the /process handler the two availability probes, the
\* scanner and the issue-search query are each invoked at most once.
C20_EachStageAtMostOnce ==
    mode = "handler" =>
        \A op \in {"probe_scanner", "probe_server", "scanner", "query"} : Count(op) <= 1

\* The run is inside process_repository (its own lines, or the analysis it
\* called at line 136).
InProcessRepository ==
    \/ pc \in {"pr_rmtree", "pr_url", "pr_clone", "pr_readme"}
    \/ caller = "pr" /\ pc \in {"pa_probe_scanner", "pa_probe_server", "pa_scanner", "pa_query"}

\* The step taken raises inside the try block of process_repository.
RaisesInProcessRepository ==
    \/ pc \in {"pr_rmtree", "pr_clone"} /\ Len(calls') > Len(calls)
                                         /\ calls'[Len(calls')].res = "error"
    \/ pc = "pr_url" /\ repo.private /\ github_token = None
    \/ /\ caller = "pr"
       /\ pc \in {"pa_probe_scanner", "pa_probe_server", "pa_scanner", "pa_query"}
       /\ pa_ret' # NoneRec
       /\ pa_ret'.kind = "raised"

ExceptLines == {146, 148, 150, 151}

AnalysisOps == {"probe_scanner", "probe_server", "scanner", "query"}
MirrorOps == {"create_project", "create_remote", "push"}

C17_DeletedOnlyOnHandlerSuccess ==
    (pc = "idle" /\ mode # "none") =>
        /\ (response # NoneRec /\ response.status = 200) =>
              fs = NoDir /\ LastCall = Call("cleanup", "ok", LastCall.arg)
        /\ ((response = NoneRec \/ response.status = 500) /\ CloneSucceeded) =>
              fs.gen = "fresh"

C17_Witness ==
    /\ pc = "idle"
    /\ mode = "handler"
    /\ response # NoneRec
    /\ response.status = 200
    /\ CloneSucceeded
    /\ fs = NoDir

\* C14: every request to /process is answered either with the success JSON
\* of three fields or with HTTP 500 and a JSON object holding an error
\* string, wherever in the handler the failure was raised.
C14_SuccessJsonOrErrorJson ==
    (mode = "handler" /\ pc = "idle") =>
        /\ response # NoneRec
        /\ \/ /\ response.status = 200
              /\ DOMAIN response.body = {"analysis_result", "readme_content", "gitlab_url"}
           \/ /\ response.status = 500
              /\ DOMAIN response.body = {"error"}

\* The first request is between its clone and the end of its analysis,
\* document extraction or push.
MidRun ==
    /\ CloneSucceeded
    /\ pc \in {"pa_probe_scanner", "pa_probe_server", "pa_scanner", "pa_query",
               "pr_readme", "pg_create", "pg_remote", "pg_push", "h_readme"}

\* C15: two runs on the same working-copy path are not mutually excluded.
\* While one run is between its clone and the end of its analysis, document
\* extraction or push, every step of the other run on that path (request
\* entry, pre-clone delete, clone, final cleanup) can be taken.
C15_NoMutualExclusion ==
    MidRun =>
        /\ (other.at = "idle" /\ other.started < MaxOtherRequests) => ENABLED OtherStart
        /\ other.at = "o_rmtree" => ENABLED OtherRmtree
        /\ other.at = "o_clone" => ENABLED OtherClone
        /\ other.at = "o_cleanup" => ENABLED OtherCleanup

\* C15 witness: the first request has cloned and is about to run the scanner
\* on a path the second request has just deleted.
C15_Witness ==
    /\ MidRun
    /\ pc = "pa_scanner"
    /\ other.at = "o_clone"
    /\ fs.gen = "absent"

====
